---- MODULE Spec2Model ----
(***************************************************************************)
(* Word-level model of the fixed-region heap allocator libmemalloc.        *)
(*                                                                         *)
(* heap_memory is modelled as an array of machine words.  Every field of   *)
(* block_header_t occupies exactly one word on both supported ABIs (on     *)
(* LP64 the two int fields are padded to 8 bytes, on ILP32 every field is  *)
(* 4 bytes), so a header is 7 words: 56 bytes on LP64, 28 bytes on ILP32.  *)
(* Headers are read and written at raw addresses, exactly as the C code    *)
(* does, so stale and overlapping headers behave as they do in memory.     *)
(* Addresses and sizes are in bytes.                                       *)
(***************************************************************************)
EXTENDS Integers, Sequences, FiniteSets, TLC

VARIABLES arch,            \* target ABI the library was built for
          mem,             \* heap_memory, one entry per machine word
          free_list,       \* allocator->free_list
          last_allocated,  \* allocator->last_allocated
          errno,           \* the C errno
          status,          \* "ok", or how the last call failed to return
          lastOp,          \* observation of the last public call
          live,            \* allocations returned by malloc, not yet freed
          issued,          \* pointer values returned since the last init
          freedSince,      \* pointers freed successfully since the last malloc
          opCount          \* number of public calls made

vars == <<arch, mem, free_list, last_allocated, errno, status, lastOp,
          live, issued, freedSince, opCount>>

(***************************** bounds **************************************)
HeapWords == 36
MaxOps == 7
\* the number of calls in a run that also makes calls with invalid arguments
MaxArgOps == 5

(************************** program constants ******************************)
NULL == 0
EINVAL == 22
ENOMEM == 12
ALIGNMENT == 8
FIRST_FIT == 0
NEXT_FIT == 1
BEST_FIT == 2

Archs == {"LP64", "ILP32"}

\* sizeof(size_t) == sizeof(void *): the machine word
WordBytes == IF arch = "LP64" THEN 8 ELSE 4

ARCH_ALIGNMENT == IF arch = "LP64" THEN 16 ELSE 8

\* word offsets of the fields of block_header_t
OFF_size == 0
OFF_free == 1
OFF_file == 2
OFF_line == 3
OFF_var_name == 4
OFF_next == 5
OFF_prev == 6
HeaderWords == 7

\* sizeof(block_header_t)
SizeofHeader == HeaderWords * WordBytes

\* size_t arithmetic is modulo SIZE_T_MOD (scaled-down word width)
SIZE_T_MOD == 1048576

\* address of heap_memory[0]
heap_memory == 4096

HEAP_SIZE == HeapWords * WordBytes

AddSz(a, b) == (a + b) % SIZE_T_MOD
SubSz(a, b) == (a - b + SIZE_T_MOD) % SIZE_T_MOD

ALIGN(size) ==
    LET s == AddSz(size, ARCH_ALIGNMENT - 1)
    IN  s - (s % ARCH_ALIGNMENT)

(***************************** memory **************************************)
InHeap(a) == /\ a >= heap_memory
             /\ a < heap_memory + HEAP_SIZE
             /\ (a - heap_memory) % WordBytes = 0

Idx(a) == (a - heap_memory) \div WordBytes

FieldAddr(p, off) == p + off * WordBytes

\* a machine is the heap plus the allocator struct; ub records an access
\* outside heap_memory, hang a loop that never terminates
Machine(w, fl, la) ==
    [w |-> w, free_list |-> fl, last_allocated |-> la, ub |-> FALSE, hang |-> FALSE]

Rd(m, p, off) ==
    IF InHeap(FieldAddr(p, off)) THEN m.w[Idx(FieldAddr(p, off))] ELSE 0

CanRd(p, off) == InHeap(FieldAddr(p, off))

Wr(m, p, off, v) ==
    IF InHeap(FieldAddr(p, off))
    THEN [m EXCEPT !.w[Idx(FieldAddr(p, off))] = v]
    ELSE [m EXCEPT !.ub = TRUE]

Undefined(m) == [m EXCEPT !.ub = TRUE]
Hung(m) == [m EXCEPT !.hang = TRUE]

(************************** MEM_allocatorInit ******************************)
ZeroHeap == [i \in 0..(HeapWords - 1) |-> 0]

\* init without the memset of line 116
InitWithoutMemset(m) ==
    [Wr(Wr(Wr(Wr(Wr(Wr(Wr(m, heap_memory, OFF_size, HEAP_SIZE),
                       heap_memory, OFF_free, 1),
                    heap_memory, OFF_next, NULL),
                 heap_memory, OFF_prev, NULL),
              heap_memory, OFF_file, NULL),
           heap_memory, OFF_line, 0),
        heap_memory, OFF_var_name, NULL)
     EXCEPT !.free_list = heap_memory, !.last_allocated = heap_memory]

MEM_allocatorInit(m) ==
    [Wr(Wr(Wr(Wr(Wr(Wr(Wr([m EXCEPT !.w = ZeroHeap],
                          heap_memory, OFF_size, HEAP_SIZE),
                       heap_memory, OFF_free, 1),
                    heap_memory, OFF_next, NULL),
                 heap_memory, OFF_prev, NULL),
              heap_memory, OFF_file, NULL),
           heap_memory, OFF_line, 0),
        heap_memory, OFF_var_name, NULL)
     EXCEPT !.free_list = heap_memory, !.last_allocated = heap_memory]

(************************** placement searches *****************************)
\* the predicate of the three searches: current->free && current->size >= size + sizeof(header)
Fits(m, current, size) ==
    /\ Rd(m, current, OFF_free) # 0
    /\ Rd(m, current, OFF_size) >= AddSz(size, SizeofHeader)

\* the fields a search step reads from *current
SearchReadable(m, current) ==
    /\ CanRd(current, OFF_free)
    /\ (Rd(m, current, OFF_free) # 0 => CanRd(current, OFF_size))

SearchResult(ret, blk, m) == [ret |-> ret, block |-> blk, m |-> m]

\* a deterministic walk over at most HeapWords header addresses that takes
\* more steps than that never ends
WalkFuel == HeapWords + 1

RECURSIVE FirstFitLoop(_, _, _, _)
FirstFitLoop(m, current, size, fuel) ==
    IF current = NULL THEN SearchResult(ENOMEM, NULL, m)
    ELSE IF fuel = 0 THEN SearchResult(0, NULL, Hung(m))
    ELSE IF ~SearchReadable(m, current) THEN SearchResult(0, NULL, Undefined(m))
    ELSE IF Fits(m, current, size) THEN SearchResult(0, current, m)
    ELSE IF ~CanRd(current, OFF_next) THEN SearchResult(0, NULL, Undefined(m))
    ELSE FirstFitLoop(m, Rd(m, current, OFF_next), size, fuel - 1)

MEM_findFirstFit(m, size) == FirstFitLoop(m, m.free_list, size, WalkFuel)

RECURSIVE NextFitLoop(_, _, _, _, _)
NextFitLoop(m, current, start, size, fuel) ==
    IF fuel = 0 THEN SearchResult(0, NULL, Hung(m))
    ELSE IF ~SearchReadable(m, current) THEN SearchResult(0, NULL, Undefined(m))
    ELSE IF Fits(m, current, size)
         THEN SearchResult(0, current, [m EXCEPT !.last_allocated = current])
    ELSE IF ~CanRd(current, OFF_next) THEN SearchResult(0, NULL, Undefined(m))
    ELSE LET nxt == IF Rd(m, current, OFF_next) # NULL
                    THEN Rd(m, current, OFF_next)
                    ELSE heap_memory
         IN  IF nxt = start THEN SearchResult(ENOMEM, NULL, m)
             ELSE NextFitLoop(m, nxt, start, size, fuel - 1)

\* a search result whose failure also moves the cursor back to the region base
ResetOnFail(r) ==
    IF r.ret # 0 THEN [r EXCEPT !.m.last_allocated = heap_memory] ELSE r

\* next-fit that loses the cursor when nothing fits
NextFitResetsCursor(m, size) ==
    ResetOnFail(NextFitLoop(m, m.last_allocated, m.last_allocated, size, WalkFuel))

MEM_findNextFit(m, size) ==
    NextFitLoop(m, m.last_allocated, m.last_allocated, size, WalkFuel)

RECURSIVE BestFitLoop(_, _, _, _, _)
BestFitLoop(m, current, best, size, fuel) ==
    IF current = NULL
    THEN SearchResult(IF best = NULL THEN ENOMEM ELSE 0, best, m)
    ELSE IF fuel = 0 THEN SearchResult(0, NULL, Hung(m))
    ELSE IF ~SearchReadable(m, current) THEN SearchResult(0, NULL, Undefined(m))
    ELSE IF ~CanRd(current, OFF_next) THEN SearchResult(0, NULL, Undefined(m))
    ELSE LET better == /\ Fits(m, current, size)
                       /\ \/ best = NULL
                          \/ Rd(m, current, OFF_size) < Rd(m, best, OFF_size)
         IN  BestFitLoop(m, Rd(m, current, OFF_next),
                         IF better THEN current ELSE best, size, fuel - 1)

MEM_findBestFit(m, size) == BestFitLoop(m, m.free_list, NULL, size, WalkFuel)

(***************************** MEM_splitBlock ******************************)
\* the split threshold of line 338
SplitFits(m, block, aligned_size) ==
    Rd(m, block, OFF_size) >= AddSz(AddSz(aligned_size, SizeofHeader), ARCH_ALIGNMENT)

\* the suffix block's address, line 340
SuffixAddr(block, aligned_size) == block + SizeofHeader + aligned_size

\* lines 343-347
SplitInitSuffix(m, block, new_block, aligned_size) ==
    Wr(Wr(Wr(Wr(Wr(m, new_block, OFF_size,
                   SubSz(SubSz(Rd(m, block, OFF_size), SizeofHeader), aligned_size)),
                new_block, OFF_free, 1),
             new_block, OFF_file, NULL),
          new_block, OFF_line, 0),
       new_block, OFF_var_name, NULL)

\* lines 348-349
SplitLinkSuffix(m, block, new_block) ==
    Wr(Wr(m, new_block, OFF_next, Rd(m, block, OFF_next)), new_block, OFF_prev, block)

\* lines 351-352
SplitShrink(m, block, aligned_size) ==
    Wr(Wr(m, block, OFF_size, AddSz(aligned_size, SizeofHeader)), block, OFF_free, 0)

\* lines 354-357
SplitRelinkNext(m, new_block) ==
    IF ~CanRd(new_block, OFF_next) THEN Undefined(m)
    ELSE IF Rd(m, new_block, OFF_next) # NULL
         THEN Wr(m, Rd(m, new_block, OFF_next), OFF_prev, new_block)
    ELSE m

\* lines 361-364: if (allocator->free_list == block) allocator->free_list = new_block;
SplitHead(m, block, new_block) ==
    IF m.free_list = block THEN [m EXCEPT !.free_list = new_block] ELSE m

\* lines 340-364
SplitAt(m, block, new_block, aligned_size) ==
    SplitHead(
        Wr(SplitRelinkNext(
               SplitShrink(
                   SplitLinkSuffix(
                       SplitInitSuffix(m, block, new_block, aligned_size),
                       block, new_block),
                   block, aligned_size),
               new_block),
           block, OFF_next, new_block),
        block, new_block)

MEM_splitBlock(m, block, size) ==
    IF SplitFits(m, block, ALIGN(size))
    THEN SplitAt(m, block, SuffixAddr(block, ALIGN(size)), ALIGN(size))
    ELSE Wr(m, block, OFF_free, 0)

(*************************** MEM_allocatorMalloc ***************************)
Strategies == {FIRST_FIT, NEXT_FIT, BEST_FIT}

MallocResult(ptr, err, m) == [ptr |-> ptr, errno |-> err, m |-> m]

\* the switch of lines 430-445
Search(m, aligned_size, strategy) ==
    CASE strategy = FIRST_FIT -> MEM_findFirstFit(m, aligned_size)
      [] strategy = NEXT_FIT  -> MEM_findNextFit(m, aligned_size)
      [] OTHER                -> MEM_findBestFit(m, aligned_size)

\* lines 472-474
Stamp(m, block, file, line, var_name) ==
    Wr(Wr(Wr(m, block, OFF_file, file), block, OFF_line, line), block, OFF_var_name, var_name)

\* lines 447-474; err = 0 stands for "errno not written"
Place(found, aligned_size, file, line, var_name) ==
    IF found.m.ub \/ found.m.hang THEN MallocResult(NULL, 0, found.m)
    ELSE IF found.ret # 0 \/ found.block = NULL THEN MallocResult(NULL, EINVAL, found.m)
    ELSE MallocResult(found.block + SizeofHeader, 0,
                      Stamp(MEM_splitBlock(found.m, found.block, aligned_size),
                            found.block, file, line, var_name))

MEM_allocatorMalloc(m, size, file, line, var_name, strategy) ==
    IF size = 0 THEN MallocResult(NULL, EINVAL, m)
    ELSE IF strategy \notin Strategies THEN MallocResult(NULL, EINVAL, m)
    ELSE Place(Search(m, ALIGN(size), strategy), ALIGN(size), file, line, var_name)

(************************** MEM_validPointerCheck ***************************)
\* ret = 0 when ptr is accepted; every rejection also sets errno = EINVAL
MEM_validPointerCheck(m, ptr) ==
    IF ptr = NULL THEN EINVAL
    ELSE IF ptr < heap_memory + SizeofHeader \/ ptr >= heap_memory + HEAP_SIZE THEN EINVAL
    ELSE IF ((ptr - heap_memory) % ALIGNMENT) # 0 THEN EINVAL
    ELSE IF ptr - SizeofHeader < heap_memory \/ ptr - SizeofHeader >= heap_memory + HEAP_SIZE
         THEN EINVAL
    ELSE IF Rd(m, ptr - SizeofHeader, OFF_free) # 0 THEN EINVAL
    ELSE 0

(***************************** MEM_mergeBlocks *****************************)
\* lines 594 and 607: one block's size grows by the other's
AbsorbSize(m, block, other) ==
    Wr(m, block, OFF_size, AddSz(Rd(m, block, OFF_size), Rd(m, other, OFF_size)))

\* line 595
AbsorbLink(m, block, next_block) ==
    Wr(m, block, OFF_next, Rd(m, next_block, OFF_next))

\* lines 597-600
AbsorbRelink(m, block, next_block) ==
    IF Rd(m, next_block, OFF_next) # NULL
    THEN Wr(m, Rd(m, next_block, OFF_next), OFF_prev, block)
    ELSE m

\* lines 592-603: absorb next_block, the block that starts where this one ends
MergeForwardAt(m, block, next_block) ==
    IF ~(next_block < heap_memory + HEAP_SIZE) THEN m
    ELSE IF ~CanRd(next_block, OFF_free) THEN Undefined(m)
    ELSE IF Rd(m, next_block, OFF_free) = 0 THEN m
    ELSE IF ~CanRd(next_block, OFF_next) THEN Undefined(m)
    ELSE AbsorbRelink(AbsorbLink(AbsorbSize(m, block, next_block), block, next_block),
                      block, next_block)

\* lines 591-603
MergeForward(m, block) == MergeForwardAt(m, block, block + Rd(m, block, OFF_size))

\* line 608
GiveLink(m, block) ==
    Wr(m, Rd(m, block, OFF_prev), OFF_next, Rd(m, block, OFF_next))

\* lines 610-613
GiveRelink(m, block) ==
    IF Rd(m, block, OFF_next) # NULL
    THEN Wr(m, Rd(m, block, OFF_next), OFF_prev, Rd(m, block, OFF_prev))
    ELSE m

\* line 615: the survivor is block->prev
Survivor(m, block) == [m |-> m, block |-> Rd(m, block, OFF_prev)]

\* lines 605-618: absorb this block into a free predecessor; yields the
\* memory and the surviving block
MergeBackward(m, block) ==
    IF Rd(m, block, OFF_prev) = NULL THEN [m |-> m, block |-> block]
    ELSE IF ~CanRd(Rd(m, block, OFF_prev), OFF_free)
         THEN [m |-> Undefined(m), block |-> block]
    ELSE IF Rd(m, Rd(m, block, OFF_prev), OFF_free) = 0 THEN [m |-> m, block |-> block]
    ELSE Survivor(GiveRelink(GiveLink(AbsorbSize(m, Rd(m, block, OFF_prev), block), block),
                             block),
                  block)

\* lines 620-622
ClearDiagnostics(m, block) ==
    Wr(Wr(Wr(m, block, OFF_file, NULL), block, OFF_line, 0), block, OFF_var_name, NULL)

ClearSurvivor(b) == ClearDiagnostics(b.m, b.block)

MEM_mergeBlocks(m, block) == ClearSurvivor(MergeBackward(MergeForward(m, block), block))

(**************************** MEM_allocatorFree ****************************)
FreeResult(ret, err, m) == [ret |-> ret, errno |-> err, m |-> m]

\* lines 677-680
MarkFree(m, block) ==
    ClearDiagnostics(Wr(m, block, OFF_free, 1), block)

\* lines 662-692, ret being the validator's verdict
FreeChecked(m, ptr, ret) ==
    IF ret # 0 THEN FreeResult(ret, EINVAL, m)
    ELSE IF Rd(m, ptr - SizeofHeader, OFF_free) # 0 THEN FreeResult(EINVAL, 0, m)
    ELSE FreeResult(0, 0, MEM_mergeBlocks(MarkFree(m, ptr - SizeofHeader),
                                          ptr - SizeofHeader))

MEM_allocatorFree(m, ptr) == FreeChecked(m, ptr, MEM_validPointerCheck(m, ptr))

(************************** MEM_allocatorPrintAll **************************)
\* one output line per visited block
DumpLine(m, current) ==
    [payload |-> current + SizeofHeader,
     size    |-> SubSz(Rd(m, current, OFF_size), SizeofHeader),
     free    |-> IF Rd(m, current, OFF_free) # 0 THEN "Yes" ELSE "No",
     file    |-> IF Rd(m, current, OFF_free) # 0 THEN NULL ELSE Rd(m, current, OFF_file),
     line    |-> IF Rd(m, current, OFF_free) # 0 THEN 0 ELSE Rd(m, current, OFF_line)]

DumpReadable(m, current) ==
    /\ CanRd(current, OFF_size)
    /\ CanRd(current, OFF_free)
    /\ (Rd(m, current, OFF_free) = 0 => CanRd(current, OFF_file) /\ CanRd(current, OFF_line))

RECURSIVE PrintAllLoop(_, _, _, _)
PrintAllLoop(m, current, out, fuel) ==
    IF ~(current < heap_memory + HEAP_SIZE) THEN [out |-> out, m |-> m]
    ELSE IF fuel = 0 THEN [out |-> out, m |-> Hung(m)]
    ELSE IF ~DumpReadable(m, current) THEN [out |-> out, m |-> Undefined(m)]
    ELSE PrintAllLoop(m, current + Rd(m, current, OFF_size),
                      Append(out, DumpLine(m, current)), fuel - 1)

MEM_allocatorPrintAll(m) == PrintAllLoop(m, heap_memory, <<>>, WalkFuel)

(******************************* the system ********************************)
\* request sizes: one that ALIGN rounds up to ARCH_ALIGNMENT, one that is
\* already a multiple of it
ReqSizes == {1, 2 * ARCH_ALIGNMENT}

\* the (file, line, var_name) triple of a call site; file and var_name are
\* addresses of string literals, which lie outside (here: above) the heap
Sites == {[file |-> 8192, line |-> 10, var_name |-> 8200]}

Cur == Machine(mem, free_list, last_allocated)

NoOp == [op |-> "none", size |-> 0, strategy |-> 0, ptr |-> NULL, ret |-> 0, out |-> <<>>]

Observed(op, size, strategy, ptr, ret, out) ==
    [op |-> op, size |-> size, strategy |-> strategy, ptr |-> ptr, ret |-> ret, out |-> out]

Init ==
    /\ arch \in Archs
    /\ \E m \in {MEM_allocatorInit(Machine(ZeroHeap, NULL, NULL))} :
           /\ mem = m.w
           /\ free_list = m.free_list
           /\ last_allocated = m.last_allocated
    /\ errno = 0
    /\ status = "ok"
    /\ lastOp = NoOp
    /\ live = {}
    /\ issued = {}
    /\ freedSince = {}
    /\ opCount = 0

CanCall == status = "ok" /\ opCount < MaxOps

\* the call did not return: undefined behaviour or an endless loop
Stuck(m) == m.ub \/ m.hang

Abort(m, obs) ==
    /\ status' = (IF m.ub THEN "ub" ELSE "hang")
    /\ lastOp' = obs
    /\ opCount' = opCount + 1
    /\ UNCHANGED <<arch, mem, free_list, last_allocated, errno, live, issued, freedSince>>

Commit(m, obs) ==
    /\ mem' = m.w
    /\ free_list' = m.free_list
    /\ last_allocated' = m.last_allocated
    /\ status' = "ok"
    /\ lastOp' = obs
    /\ opCount' = opCount + 1
    /\ arch' = arch

\* the oldest outstanding allocation that holds ptr
OldestLive(ptr) ==
    CHOOSE r \in live : r.ptr = ptr /\ \A q \in live : q.ptr = ptr => r.id <= q.id

\* the request size of the outstanding allocation that a free(ptr) gives back,
\* 0 when ptr is not outstanding
FreedSize(ptr) ==
    IF \E q \in live : q.ptr = ptr THEN OldestLive(ptr).size ELSE 0

InitCall ==
    /\ CanCall
    /\ Commit(MEM_allocatorInit(Cur), Observed("init", 0, 0, NULL, 0, <<>>))
    /\ live' = {}
    /\ issued' = {}
    /\ freedSince' = {}
    /\ UNCHANGED errno

Malloc(size, strategy, site) ==
    /\ CanCall
    /\ \E r \in {MEM_allocatorMalloc(Cur, size, site.file, site.line, site.var_name, strategy)} :
           IF Stuck(r.m) THEN Abort(r.m, Observed("malloc", size, strategy, r.ptr, 0, <<>>))
           ELSE /\ Commit(r.m, Observed("malloc", size, strategy, r.ptr, 0, <<>>))
                /\ errno' = (IF r.errno # 0 THEN r.errno ELSE errno)
                /\ live' = (IF r.ptr # NULL
                            THEN live \cup {[id |-> opCount + 1, ptr |-> r.ptr, size |-> size]}
                            ELSE live)
                /\ issued' = (IF r.ptr # NULL THEN issued \cup {r.ptr} ELSE issued)
                /\ freedSince' = {}

Free(ptr) ==
    /\ CanCall
    /\ \E r \in {MEM_allocatorFree(Cur, ptr)} :
           IF Stuck(r.m) THEN Abort(r.m, Observed("free", FreedSize(ptr), 0, ptr, r.ret, <<>>))
           ELSE /\ Commit(r.m, Observed("free", FreedSize(ptr), 0, ptr, r.ret, <<>>))
                /\ errno' = (IF r.errno # 0 THEN r.errno ELSE errno)
                /\ live' = (IF r.ret = 0 /\ (\E q \in live : q.ptr = ptr)
                            THEN live \ {OldestLive(ptr)}
                            ELSE live)
                /\ freedSince' = (IF r.ret = 0 THEN freedSince \cup {ptr} ELSE freedSince)
                /\ UNCHANGED issued

Dump ==
    /\ CanCall
    /\ \E r \in {MEM_allocatorPrintAll(Cur)} :
           IF Stuck(r.m) THEN Abort(r.m, Observed("dump", 0, 0, NULL, 0, r.out))
           ELSE /\ Commit(r.m, Observed("dump", 0, 0, NULL, 0, r.out))
                /\ UNCHANGED <<errno, live, issued, freedSince>>

Next ==
    \/ InitCall
    \/ \E size \in ReqSizes, strategy \in Strategies, site \in Sites :
          Malloc(size, strategy, site)
    \/ \E ptr \in issued \cup {NULL} : Free(ptr)
    \/ Dump

Spec == Init /\ [][Next]_vars

(********************** calls with invalid arguments ***********************)
\* a strategy value outside allocation_strategy_t: the default case of the switch
UNKNOWN_STRATEGY == 3

\* init without the allocator == NULL check
InitEntryUnchecked(allocator, m) == [ret |-> 0, m |-> MEM_allocatorInit(m)]

\* the entry of each public function, which checks allocator == NULL first
\* lines 109-113
InitEntry(allocator, m) ==
    IF allocator = NULL THEN [ret |-> EINVAL, m |-> m]
    ELSE [ret |-> 0, m |-> MEM_allocatorInit(m)]

\* lines 410-416
MallocEntry(allocator, m, size, file, line, var_name, strategy) ==
    IF allocator = NULL THEN MallocResult(NULL, EINVAL, m)
    ELSE MEM_allocatorMalloc(m, size, file, line, var_name, strategy)

\* lines 654-658: errno is not written
FreeEntry(allocator, m, ptr) ==
    IF allocator = NULL THEN FreeResult(EINVAL, 0, m)
    ELSE MEM_allocatorFree(m, ptr)

\* lines 722-726
PrintAllEntry(allocator, m) ==
    IF allocator = NULL THEN [ret |-> EINVAL, out |-> <<>>, m |-> m]
    ELSE [ret |-> 0, out |-> MEM_allocatorPrintAll(m).out, m |-> MEM_allocatorPrintAll(m).m]

\* malloc arguments that the checks of lines 418-424 and 441-444 reject
BadArgs ==
    {[size |-> 0, strategy |-> FIRST_FIT], [size |-> 1, strategy |-> UNKNOWN_STRATEGY]}

InitNull ==
    /\ CanCall
    /\ \E r \in {InitEntry(NULL, Cur)} :
           Commit(r.m, Observed("init_null", 0, 0, NULL, r.ret, <<>>))
    /\ UNCHANGED <<errno, live, issued, freedSince>>

MallocNull(size, strategy, site) ==
    /\ CanCall
    /\ \E r \in {MallocEntry(NULL, Cur, size, site.file, site.line, site.var_name, strategy)} :
           /\ Commit(r.m, Observed("malloc_null", size, strategy, r.ptr, 0, <<>>))
           /\ errno' = (IF r.errno # 0 THEN r.errno ELSE errno)
    /\ freedSince' = {}
    /\ UNCHANGED <<live, issued>>

FreeNull(ptr) ==
    /\ CanCall
    /\ \E r \in {FreeEntry(NULL, Cur, ptr)} :
           /\ Commit(r.m, Observed("free_null", 0, 0, ptr, r.ret, <<>>))
           /\ errno' = (IF r.errno # 0 THEN r.errno ELSE errno)
    /\ UNCHANGED <<live, issued, freedSince>>

DumpNull ==
    /\ CanCall
    /\ \E r \in {PrintAllEntry(NULL, Cur)} :
           Commit(r.m, Observed("dump_null", 0, 0, NULL, r.ret, r.out))
    /\ UNCHANGED <<errno, live, issued, freedSince>>

\* the calls of Next and the calls that an argument check rejects
NextArgs ==
    \/ opCount < MaxArgOps /\ Next
    \/ opCount < MaxArgOps /\ InitNull
    \/ \E size \in ReqSizes, strategy \in Strategies, site \in Sites :
          opCount < MaxArgOps /\ MallocNull(size, strategy, site)
    \/ \E ptr \in issued \cup {NULL} : opCount < MaxArgOps /\ FreeNull(ptr)
    \/ opCount < MaxArgOps /\ DumpNull
    \/ \E a \in BadArgs, site \in Sites :
          opCount < MaxArgOps /\ Malloc(a.size, a.strategy, site)

SpecArgs == Init /\ [][NextArgs]_vars

(************************* views of the heap *******************************)
heap_end == heap_memory + HEAP_SIZE

Field(p, off) == Rd(Cur, p, off)

SeqToSet(q) == {q[i] : i \in 1..Len(q)}

\* the blocks met by walking the region by address, block after block
RECURSIVE WalkFrom(_, _)
WalkFrom(p, fuel) ==
    IF fuel = 0 \/ ~InHeap(p) THEN <<>>
    ELSE IF Field(p, OFF_size) = 0 THEN <<p>>
    ELSE <<p>> \o WalkFrom(p + Field(p, OFF_size), fuel - 1)

RegionBlocks == WalkFrom(heap_memory, WalkFuel)

\* the blocks met by following next from a block
RECURSIVE LinksFrom(_, _)
LinksFrom(p, fuel) ==
    IF fuel = 0 \/ p = NULL \/ ~InHeap(p) THEN <<>>
    ELSE <<p>> \o LinksFrom(Field(p, OFF_next), fuel - 1)

\* the chain: the list that starts at chain_head (allocator->free_list)
Chain == LinksFrom(free_list, WalkFuel)

RECURSIVE SumSizes(_)
SumSizes(q) == IF q = <<>> THEN 0 ELSE Field(Head(q), OFF_size) + SumSizes(Tail(q))

IsFree(p) == Field(p, OFF_free) # 0

Returned == status = "ok"

\* the bytes [lo, hi) and [lo2, hi2) have a byte in common
Intersect(lo, hi, lo2, hi2) == lo < hi2 /\ lo2 < hi

PostInitChain ==
    /\ free_list = heap_memory
    /\ Chain = <<heap_memory>>
    /\ RegionBlocks = <<heap_memory>>
    /\ Field(heap_memory, OFF_size) = HEAP_SIZE
    /\ IsFree(heap_memory)
    /\ Field(heap_memory, OFF_next) = NULL
    /\ Field(heap_memory, OFF_prev) = NULL

(******************************* claims ************************************)
\* C1 (Tiling): after every public operation returns, the sizes of the blocks
\* on the chain sum to HEAP_SIZE and every block with a successor ends where
\* its successor starts.
C1_Tiling ==
    Returned =>
        /\ SumSizes(Chain) = HEAP_SIZE
        /\ \A i \in 1..Len(Chain) :
              Field(Chain[i], OFF_next) # NULL =>
                  Field(Chain[i], OFF_next) = Chain[i] + Field(Chain[i], OFF_size)

\* C2 (No overlap): the byte ranges [p, p + ALIGN(size)) of the outstanding
\* allocations are pairwise disjoint, lie inside the region and meet no block
\* that is marked free.
C2_NoOverlap ==
    Returned =>
        /\ \A r \in live :
              /\ r.ptr >= heap_memory
              /\ r.ptr + ALIGN(r.size) <= heap_end
        /\ \A r, q \in live :
              r # q => ~Intersect(r.ptr, r.ptr + ALIGN(r.size), q.ptr, q.ptr + ALIGN(q.size))
        /\ \A r \in live : \A b \in SeqToSet(RegionBlocks) :
              IsFree(b) =>
                  ~Intersect(r.ptr, r.ptr + ALIGN(r.size), b, b + Field(b, OFF_size))

\* C3 (Leak-free after a balanced sequence): once every allocation has been
\* freed again, the allocator is back in the post-init state: one free block
\* of HEAP_SIZE bytes at the region base, with chain_head on it.
C3_LeakFree ==
    (Returned /\ live = {}) => PostInitChain

\* C4 (No adjacent free pair): after every public operation returns, no two
\* address-adjacent blocks are both free.
C4_NoAdjacentFree ==
    Returned =>
        \A i \in 1..(Len(RegionBlocks) - 1) :
            ~(IsFree(RegionBlocks[i]) /\ IsFree(RegionBlocks[i + 1]))

\* C5 (Chain order): after every public operation returns, the next/prev
\* chain contains every block of the region in address order: adjacent
\* blocks A, B have A.next = B and B.prev = A, the first block has no prev
\* and the last no next.
C5_ChainOrder ==
    Returned =>
        /\ Chain = RegionBlocks
        /\ \A i \in 1..(Len(RegionBlocks) - 1) :
              /\ Field(RegionBlocks[i], OFF_next) = RegionBlocks[i + 1]
              /\ Field(RegionBlocks[i + 1], OFF_prev) = RegionBlocks[i]
              /\ RegionBlocks[i] < RegionBlocks[i + 1]
        /\ Field(RegionBlocks[1], OFF_prev) = NULL
        /\ Field(RegionBlocks[Len(RegionBlocks)], OFF_next) = NULL

\* C6 (chain_head): after every public operation returns, chain_head is the
\* lowest-address block, the one at the region base, and its prev is null.
C6_ChainHeadLowest ==
    Returned =>
        /\ free_list = heap_memory
        /\ Field(free_list, OFF_prev) = NULL

\* C7 (Minimum block size): after every public operation returns no block is
\* smaller than a header, and every block but the tail has at least
\* sizeof(header) + ARCH_ALIGNMENT bytes.
C7_MinBlockSize ==
    Returned =>
        \A i \in 1..Len(RegionBlocks) :
            /\ Field(RegionBlocks[i], OFF_size) >= SizeofHeader
            /\ (i < Len(RegionBlocks) =>
                   Field(RegionBlocks[i], OFF_size) >= SizeofHeader + ARCH_ALIGNMENT)

\* C8 (Cursor validity): after every public operation returns, the next-fit
\* cursor is a block that is currently linked: it is met by following next
\* from the region base or from chain_head.
C8_CursorOnChain ==
    Returned =>
        last_allocated \in SeqToSet(LinksFrom(heap_memory, WalkFuel)) \cup SeqToSet(Chain)

\* C9 (Alignment): the payload of every allocated block and every pointer
\* malloc returned lies a multiple of ALIGNMENT bytes from the region base.
C9_Alignment ==
    Returned =>
        /\ \A b \in SeqToSet(RegionBlocks) :
              ~IsFree(b) => (b + SizeofHeader - heap_memory) % ALIGNMENT = 0
        /\ \A r \in live : (r.ptr - heap_memory) % ALIGNMENT = 0

\* C10 (Double free): freeing again a pointer that was freed successfully,
\* with no malloc in between, returns EINVAL and changes neither the heap nor
\* chain_head nor the cursor.
C10_DoubleFree ==
    [][(lastOp'.op = "free" /\ lastOp'.ptr \in freedSince /\ status' = "ok")
          => (lastOp'.ret = EINVAL /\ UNCHANGED <<mem, free_list, last_allocated>>)]_vars

\* the payload addresses of the blocks that are linked or tile the region and
\* are allocated
ValidPayloads ==
    {b + SizeofHeader :
        b \in {c \in SeqToSet(RegionBlocks) \cup SeqToSet(Chain)
                       \cup SeqToSet(LinksFrom(heap_memory, WalkFuel)) : ~IsFree(c)}}

\* C11 (No acceptance of invalid or stale pointers): free of a pointer that is
\* not the payload address of an allocated block of the chain returns EINVAL
\* and changes neither the heap nor chain_head nor the cursor.
C11_RejectInvalid ==
    [][(lastOp'.op = "free" /\ status' = "ok" /\ lastOp'.ptr \notin ValidPayloads)
          => (lastOp'.ret = EINVAL /\ UNCHANGED <<mem, free_list, last_allocated>>)]_vars

\* the placement predicate for a request of size bytes
FitsRequest(b, size) ==
    IsFree(b) /\ Field(b, OFF_size) >= ALIGN(size) + SizeofHeader

\* C12 (Out-of-memory): a malloc with a valid size and strategy that finds no
\* free block of the chain with size >= ALIGN(size) + sizeof(header) returns
\* NULL and leaves ENOMEM in errno.
C12_OutOfMemory ==
    [][(/\ lastOp'.op = "malloc"
        /\ status' = "ok"
        /\ lastOp'.size > 0
        /\ lastOp'.strategy \in Strategies
        /\ ~\E b \in SeqToSet(Chain) : FitsRequest(b, lastOp'.size))
          => (lastOp'.ptr = NULL /\ errno' = ENOMEM)]_vars

\* C13 (Argument rejection): init, free and dump with a null allocator return
\* EINVAL; malloc with a null allocator, with size 0 or with a strategy
\* outside the enumeration returns NULL and leaves EINVAL in errno; each of
\* these calls leaves the heap, chain_head and the cursor unchanged.
C13_ArgumentRejection ==
    [][/\ lastOp'.op \in {"init_null", "free_null", "dump_null"}
            => (lastOp'.ret = EINVAL /\ UNCHANGED <<mem, free_list, last_allocated>>)
       /\ (\/ lastOp'.op = "malloc_null"
           \/ (lastOp'.op = "malloc"
                 /\ (lastOp'.size = 0 \/ lastOp'.strategy \notin Strategies)))
            => /\ status' = "ok"
               /\ lastOp'.ptr = NULL
               /\ errno' = EINVAL
               /\ UNCHANGED <<mem, free_list, last_allocated>>]_vars

\* init was called with a null allocator while allocations were outstanding
C13_Witness ==
    lastOp.op = "init_null" /\ live # {} /\ status = "ok"

\* C14 (Termination): every call returns; no placement search and no dump
\* walks for ever.
C14_Termination == status # "hang"

\* the blocks of the region that pass the placement predicate
FitBlocks(size) == {b \in SeqToSet(RegionBlocks) : FitsRequest(b, size)}

Lowest(S) == CHOOSE b \in S : \A c \in S : b <= c

\* a malloc call with a valid size under the given strategy has returned
MallocReturned(strategy) ==
    /\ lastOp'.op = "malloc"
    /\ lastOp'.strategy = strategy
    /\ lastOp'.size > 0
    /\ status' = "ok"

\* C15 (First-fit selection): malloc(size, FIRST_FIT) allocates the
\* lowest-address block of the region that is free and has size >=
\* ALIGN(size) + sizeof(header), and fails only when there is none.
C15_FirstFit ==
    [][MallocReturned(FIRST_FIT) =>
          IF FitBlocks(lastOp'.size) = {}
          THEN lastOp'.ptr = NULL
          ELSE lastOp'.ptr = Lowest(FitBlocks(lastOp'.size)) + SizeofHeader]_vars

\* the fitting block of the region with the smallest size, the lowest one of
\* those with that size
Smallest(S) ==
    Lowest({b \in S : \A c \in S : Field(b, OFF_size) <= Field(c, OFF_size)})

\* C16 (Best-fit selection): malloc(size, BEST_FIT) allocates the smallest
\* block of the region that is free and has size >= ALIGN(size) +
\* sizeof(header), the lowest-address one among equals, and fails only when
\* there is none.
C16_BestFit ==
    [][MallocReturned(BEST_FIT) =>
          IF FitBlocks(lastOp'.size) = {}
          THEN lastOp'.ptr = NULL
          ELSE lastOp'.ptr = Smallest(FitBlocks(lastOp'.size)) + SizeofHeader]_vars

\* the part of q before the first occurrence of p
RECURSIVE Before(_, _)
Before(q, p) ==
    IF q = <<>> \/ Head(q) = p THEN <<>> ELSE <<Head(q)>> \o Before(Tail(q), p)

\* the blocks in cyclic order: from start to the tail, then from wrapTo up to
\* start
CyclicFrom(start, wrapTo) ==
    LinksFrom(start, WalkFuel) \o Before(LinksFrom(wrapTo, WalkFuel), start)

\* the first block of q that passes the placement predicate, NULL if none
RECURSIVE FirstFitting(_, _)
FirstFitting(q, size) ==
    IF q = <<>> THEN NULL
    ELSE IF FitsRequest(Head(q), size) THEN Head(q)
    ELSE FirstFitting(Tail(q), size)

\* the payload of a block, NULL for no block
PayloadOf(b) == IF b = NULL THEN NULL ELSE b + SizeofHeader

\* C17 (Next-fit selection and wrap): malloc(size, NEXT_FIT) allocates the
\* first fitting block in cyclic chain order from the cursor, wrapping from
\* the tail to chain_head, fails only when that order holds no fitting block,
\* and on success moves the cursor to the block it returns.
C17_NextFit ==
    [][MallocReturned(NEXT_FIT) =>
          /\ lastOp'.ptr =
                PayloadOf(FirstFitting(CyclicFrom(last_allocated, free_list), lastOp'.size))
          /\ (lastOp'.ptr # NULL => last_allocated' = lastOp'.ptr - SizeofHeader)]_vars

\* C18 (First-fit reuse law): free(p) of an outstanding allocation of request
\* size s, followed at once by malloc(s, FIRST_FIT), returns a block whose
\* address is not above that of p.
C18_FirstFitReuse ==
    [][(/\ lastOp.op = "free"
        /\ lastOp.ret = 0
        /\ lastOp.size > 0
        /\ MallocReturned(FIRST_FIT)
        /\ lastOp'.size = lastOp.size)
          => (lastOp'.ptr # NULL /\ lastOp'.ptr <= lastOp.ptr)]_vars

\* the heap right after MEM_allocatorInit: zero but for size and free of the
\* block at the region base
FreshHeap ==
    [i \in 0..(HeapWords - 1) |->
        IF i = OFF_size THEN HEAP_SIZE ELSE IF i = OFF_free THEN 1 ELSE 0]

\* C19 (Init resets all state): init with a non-null allocator returns 0 and
\* always yields the same state: one free block of HEAP_SIZE bytes at the
\* region base with null links and empty diagnostics, all other bytes zero,
\* and chain_head and the cursor on that block.
C19_InitResets ==
    [][lastOp'.op = "init" =>
          /\ status' = "ok"
          /\ lastOp'.ret = 0
          /\ mem' = FreshHeap
          /\ free_list' = heap_memory
          /\ last_allocated' = heap_memory]_vars

\* init has returned after earlier calls moved chain_head and the cursor
C19_Witness ==
    lastOp.op = "init" /\ opCount >= 3 /\ free_list = heap_memory /\ status = "ok"

\* a header field as it reads after the step
FieldAfter(p, off) == Rd(Machine(mem', free_list', last_allocated'), p, off)

\* block B of size S with successor N was split for aligned size a: an
\* allocated prefix at B and a free suffix directly after it, linked between
\* B and N
WasSplit(B, S, N, a) ==
    /\ FieldAfter(B, OFF_size) = a + SizeofHeader
    /\ FieldAfter(B, OFF_free) = 0
    /\ FieldAfter(B, OFF_next) = SuffixAddr(B, a)
    /\ FieldAfter(SuffixAddr(B, a), OFF_size) = S - SizeofHeader - a
    /\ FieldAfter(SuffixAddr(B, a), OFF_free) # 0
    /\ FieldAfter(SuffixAddr(B, a), OFF_prev) = B
    /\ FieldAfter(SuffixAddr(B, a), OFF_next) = N
    /\ (N # NULL => FieldAfter(N, OFF_prev) = SuffixAddr(B, a))
    /\ FieldAfter(B, OFF_size) + FieldAfter(SuffixAddr(B, a), OFF_size) = S

\* block B of size S was handed out whole: size and links as before
WasTakenWhole(B, S) ==
    /\ FieldAfter(B, OFF_size) = S
    /\ FieldAfter(B, OFF_free) = 0
    /\ FieldAfter(B, OFF_next) = Field(B, OFF_next)
    /\ FieldAfter(B, OFF_prev) = Field(B, OFF_prev)

SplitRule(B, a) ==
    IF Field(B, OFF_size) >= a + SizeofHeader + ARCH_ALIGNMENT
    THEN WasSplit(B, Field(B, OFF_size), Field(B, OFF_next), a)
    ELSE WasTakenWhole(B, Field(B, OFF_size))

\* C20 (Split rule): a malloc that returns block B for aligned size a splits
\* B into an allocated prefix of a + sizeof(header) bytes and a free suffix
\* with the rest when B.size >= a + sizeof(header) + ARCH_ALIGNMENT, and
\* otherwise marks B allocated with its size and links unchanged.
C20_SplitRule ==
    [][(lastOp'.op = "malloc" /\ status' = "ok" /\ lastOp'.ptr # NULL)
          => SplitRule(lastOp'.ptr - SizeofHeader, ALIGN(lastOp'.size))]_vars

\* the block of the region that ends where block b starts, NULL if none
AddrPred(b) ==
    IF \E c \in SeqToSet(RegionBlocks) : c + Field(c, OFF_size) = b
    THEN CHOOSE c \in SeqToSet(RegionBlocks) : c + Field(c, OFF_size) = b
    ELSE NULL

\* the block that starts where block b ends, NULL at the end of the region
AddrSucc(b) ==
    IF b + Field(b, OFF_size) < heap_end THEN b + Field(b, OFF_size) ELSE NULL

FreeNeighbour(n) == n # NULL /\ IsFree(n)

SizeIfFree(n) == IF FreeNeighbour(n) THEN Field(n, OFF_size) ELSE 0

\* what a free of block B must leave: the survivor Sv of size Total, free,
\* with empty diagnostics, linked to the block that follows it, and every
\* block outside the merge as it was
Coalesced(B, Sv, Total) ==
    /\ FieldAfter(Sv, OFF_size) = Total
    /\ FieldAfter(Sv, OFF_free) # 0
    /\ FieldAfter(Sv, OFF_file) = NULL
    /\ FieldAfter(Sv, OFF_line) = 0
    /\ FieldAfter(Sv, OFF_var_name) = NULL
    /\ FieldAfter(Sv, OFF_next) = (IF Sv + Total < heap_end THEN Sv + Total ELSE NULL)
    /\ (Sv + Total < heap_end => FieldAfter(Sv + Total, OFF_prev) = Sv)
    /\ \A c \in SeqToSet(RegionBlocks) :
          (c < Sv \/ c >= Sv + Total) =>
              \A off \in {OFF_size, OFF_free, OFF_file, OFF_line, OFF_var_name} :
                  FieldAfter(c, off) = Field(c, off)

CoalesceRule(B) ==
    Coalesced(B,
              IF FreeNeighbour(AddrPred(B)) THEN AddrPred(B) ELSE B,
              Field(B, OFF_size) + SizeIfFree(AddrSucc(B)) + SizeIfFree(AddrPred(B)))

\* C21 (Coalesce rule): a successful free of block B leaves one free block
\* that spans B, its address-successor if that was free and its
\* address-predecessor if that was free, linked to the remaining neighbours,
\* and leaves every other block as it was.
C21_CoalesceRule ==
    [][(/\ lastOp'.op = "free"
        /\ status' = "ok"
        /\ lastOp'.ret = 0
        /\ (lastOp'.ptr - SizeofHeader) \in SeqToSet(RegionBlocks))
          => CoalesceRule(lastOp'.ptr - SizeofHeader)]_vars

\* C22 (A failing malloc changes nothing): a malloc that returns NULL leaves
\* the heap, chain_head and the next-fit cursor as they were.
C22_FailedMallocFrame ==
    [][(lastOp'.op \in {"malloc", "malloc_null"} /\ status' = "ok" /\ lastOp'.ptr = NULL)
          => UNCHANGED <<mem, free_list, last_allocated>>]_vars

\* a malloc with valid arguments found no fitting block and returned NULL
C22_Witness ==
    /\ status = "ok"
    /\ lastOp.op = "malloc"
    /\ lastOp.ptr = NULL
    /\ lastOp.size > 0
    /\ lastOp.strategy = NEXT_FIT
    /\ live # {}

\* the pointers that the checks of the free path refuse
Refused(ptr) ==
    \/ ptr = NULL
    \/ ptr < heap_memory + SizeofHeader
    \/ ptr >= heap_end
    \/ (ptr - heap_memory) % ALIGNMENT # 0
    \/ Field(ptr - SizeofHeader, OFF_free) # 0

\* C23 (Pointer validation on the free path): free returns EINVAL and changes
\* nothing for a pointer that is null, below the first payload, at or past the
\* end of the region, misaligned, or whose header is marked free; free of a
\* pointer that malloc returned and that was not freed since returns 0.
C23_FreeValidation ==
    [][(lastOp'.op = "free" /\ status' = "ok") =>
          /\ Refused(lastOp'.ptr) =>
                (lastOp'.ret = EINVAL /\ UNCHANGED <<mem, free_list, last_allocated>>)
          /\ lastOp'.ptr \in {r.ptr : r \in live} => lastOp'.ret = 0]_vars

\* the (file, line, var_name) words stored in the header of block b
Diagnostics(b) == <<Field(b, OFF_file), Field(b, OFF_line), Field(b, OFF_var_name)>>

\* C24 (Diagnostic fidelity): after every public operation returns, the block
\* of every outstanding allocation stores the (file, line, var_name) triple of
\* a malloc call site, and every free block of the region has empty
\* diagnostics (null file, line 0, null var_name).
C24_DiagnosticFidelity ==
    Returned =>
        /\ \A r \in live :
              \E s \in Sites :
                  Diagnostics(r.ptr - SizeofHeader) = <<s.file, s.line, s.var_name>>
        /\ \A b \in SeqToSet(RegionBlocks) \cup SeqToSet(Chain) :
              IsFree(b) => Diagnostics(b) = <<NULL, 0, NULL>>

\* C25 (Reusability after release): when every outstanding allocation has
\* been freed, malloc(s, strategy) with a known strategy and a size that fits
\* the region right after init (1 <= ALIGN(s) <= HEAP_SIZE - sizeof(header))
\* returns a non-null pointer.
C25_Reusable ==
    [][(/\ live = {}
        /\ lastOp'.op = "malloc"
        /\ status' = "ok"
        /\ lastOp'.strategy \in Strategies
        /\ 1 <= ALIGN(lastOp'.size)
        /\ ALIGN(lastOp'.size) + SizeofHeader <= HEAP_SIZE)
          => lastOp'.ptr # NULL]_vars

\* C26 (Memory safety of header writes): whenever malloc picks block B for
\* aligned size a and splits it (B.size >= a + sizeof(header) +
\* ARCH_ALIGNMENT), the header of the suffix N written by the split lies
\* inside [N, N + N.size) and inside the region, so the split writes no byte
\* outside [region_base, region_base + HEAP_SIZE).
C26_SuffixHeaderInside ==
    [][(/\ lastOp'.op = "malloc"
        /\ lastOp'.ptr # NULL
        /\ Field(lastOp'.ptr - SizeofHeader, OFF_size)
              >= ALIGN(lastOp'.size) + SizeofHeader + ARCH_ALIGNMENT)
          => /\ Field(lastOp'.ptr - SizeofHeader, OFF_size) - SizeofHeader - ALIGN(lastOp'.size)
                   >= SizeofHeader
             /\ SuffixAddr(lastOp'.ptr - SizeofHeader, ALIGN(lastOp'.size)) + SizeofHeader
                   <= heap_end
             /\ status' # "ub"]_vars

\* C27 (Sufficient capacity): when malloc(size, strategy) returns a non-null
\* pointer, the block whose payload it is has size - sizeof(header) >= size
\* and is marked allocated.
C27_Capacity ==
    [][(lastOp'.op = "malloc" /\ status' = "ok" /\ lastOp'.ptr # NULL)
          => /\ FieldAfter(lastOp'.ptr - SizeofHeader, OFF_size) - SizeofHeader >= lastOp'.size
             /\ FieldAfter(lastOp'.ptr - SizeofHeader, OFF_free) = 0]_vars

(************************ requests near SIZE_MAX ***************************)
MaxSizeOps == 4

\* request sizes above HEAP_SIZE - sizeof(header): one just above it, and two
\* within ARCH_ALIGNMENT + sizeof(header) of the largest size_t value
WideSizes == {HEAP_SIZE - SizeofHeader + 1, SIZE_T_MOD - SizeofHeader, SIZE_T_MOD - 1}

NextSizes ==
    \/ opCount < MaxSizeOps /\ Next
    \/ \E size \in WideSizes, strategy \in Strategies, site \in Sites :
          opCount < MaxSizeOps /\ Malloc(size, strategy, site)

SpecSizes == Init /\ [][NextSizes]_vars

\* C28 (Size arithmetic does not wrap): for every requested size, ALIGN(size)
\* is the least multiple of ARCH_ALIGNMENT that is >= size, and malloc of a
\* size above HEAP_SIZE - sizeof(header) returns NULL and changes neither the
\* heap nor chain_head nor the cursor.
C28_NoWrap ==
    [][(lastOp'.op = "malloc" /\ lastOp'.size > 0) =>
          /\ ALIGN(lastOp'.size) >= lastOp'.size
          /\ ALIGN(lastOp'.size) % ARCH_ALIGNMENT = 0
          /\ ALIGN(lastOp'.size) - lastOp'.size < ARCH_ALIGNMENT
          /\ lastOp'.size > HEAP_SIZE - SizeofHeader =>
                /\ status' = "ok"
                /\ lastOp'.ptr = NULL
                /\ UNCHANGED <<mem, free_list, last_allocated>>]_vars

\* the dump line of block b: payload address, payload size, Yes/No for free
LineOf(b) ==
    [payload |-> b + SizeofHeader,
     size    |-> Field(b, OFF_size) - SizeofHeader,
     free    |-> IF IsFree(b) THEN "Yes" ELSE "No"]

\* what a dump line says about the block it describes
Shown(l) == [payload |-> l.payload, size |-> l.size, free |-> l.free]

\* C29 (Dump is a read-only linear walk): a dump with a non-null allocator
\* returns 0, emits exactly one line per block of the chain in address order
\* (payload address, payload size, Yes/No for free) and changes no block,
\* chain_head or cursor.
C29_DumpReadOnly ==
    [][lastOp'.op = "dump" =>
          /\ status' = "ok"
          /\ lastOp'.ret = 0
          /\ Len(lastOp'.out) = Len(Chain)
          /\ \A i \in 1..Len(Chain) :
                /\ i <= Len(lastOp'.out)
                /\ Shown(lastOp'.out[i]) = LineOf(Chain[i])
          /\ \A i \in 1..(Len(lastOp'.out) - 1) :
                lastOp'.out[i].payload < lastOp'.out[i + 1].payload
          /\ UNCHANGED <<mem, free_list, last_allocated>>]_vars

====
